---- MODULE Spec2Model ----
(***************************************************************************)
(* OneNoteAuth (auth.py): the token lifecycle manager.  A manager is       *)
(* constructed (client id resolution, token path resolution, load of the   *)
(* persisted refresh token), then serves get_access_token calls: a silent  *)
(* refresh-token exchange when a refresh token was loaded, else (or after  *)
(* a rejected exchange) the device-code flow; a refresh token the provider *)
(* returns is saved to the token file step by step (mkdir, chmod of the    *)
(* directory, write_text, chmod of the file).                              *)
(*                                                                         *)
(* Python strings that the code trims or tests for emptiness (the refresh  *)
(* token, the file's contents) are sequences of one-character strings.     *)
(* Optional values are NoneV / Some(v).  A provider response is a dict: a  *)
(* function whose DOMAIN is the set of keys present.                       *)
(***************************************************************************)
EXTENDS Integers, Sequences, FiniteSets, TLC

VARIABLES
    env,        \* the platform: os.name, umask, container sentinels, .env, /run/secrets
    argv,       \* the arguments every construction is given: client_id, token_path
    environ,    \* os.environ["MS_CLIENT_ID"] (NoneV when unset)
    fs,         \* the storage location: parent directory and token file
    pc,         \* per manager: where the instance stands in its code
    self,       \* per manager: the instance's fields
    result,     \* per manager: get_access_token's local `result`
    flow,       \* per manager: get_access_token's local `flow`
    token,      \* per manager: _save_refresh_token's argument `token`
    calls,      \* per manager: provider calls made by the current get_access_token
    saves,      \* per manager: arguments of the _save_refresh_token calls of the current call
    outcome,    \* per manager: how the last construction or call ended
    load_fault, \* per manager: the call that raised during the load at construction ("none" if none)
    save_fault, \* per manager: the file-system call of the current save that raised ("" if none)
    last_saved, \* the token of the last save that ran to completion, while no later save wrote
    interrupted,\* the step before which a process died inside a save ("" once a later save ended)
    latest,     \* the manager whose current call was granted the latest refresh token ("" if none)
    overlap     \* per manager: another manager was inside a call during its current call

vars == <<env, argv, environ, fs, pc, self, result, flow, token, calls, saves,
          outcome, load_fault, save_fault, last_saved, interrupted, latest, overlap>>

----------------------------------------------------------------------------
(* Bounds and sample values                                                *)

\* longest refresh token / file content considered
MaxLen == 2

\* the characters of a token: one non-blank, one whitespace
Chars == {"a", " "}

Mgrs == {"m1", "m2"}

RECURSIVE StringsUpTo(_)
StringsUpTo(n) ==
    IF n = 0 THEN {<<>>}
    ELSE LET shorter == StringsUpTo(n - 1)
         IN  shorter \cup {Append(s, c) : s \in {t \in shorter : Len(t) = n - 1}, c \in Chars}

\* every string the provider may issue as a refresh token or the file may hold
Strings == StringsUpTo(MaxLen)

AccessTokens == {"at1", "at2"}

NoneV == [some |-> FALSE]
Some(v) == [some |-> TRUE, val |-> v]

----------------------------------------------------------------------------
(* Python helpers                                                          *)

\* str.strip(), line 99
RECURSIVE LStrip(_)
LStrip(s) == IF s = <<>> THEN s
             ELSE IF Head(s) = " " THEN LStrip(Tail(s)) ELSE s

RECURSIVE RStrip(_)
RStrip(s) == IF s = <<>> THEN s
             ELSE IF s[Len(s)] = " " THEN RStrip(SubSeq(s, 1, Len(s) - 1)) ELSE s

Strip(s) == RStrip(LStrip(s))

\* truth value of an Optional[str] whose string is a character sequence
Truthy(o) == o.some /\ o.val # <<>>

\* truth value of an Optional[str] whose string is an opaque text
TruthyText(o) == o.some /\ o.val # ""

\* a & ~b on the nine permission bits
RECURSIVE AndNot(_, _, _)
AndNot(a, b, bits) ==
    IF bits = 0 THEN 0
    ELSE 2 * AndNot(a \div 2, b \div 2, bits - 1)
         + (IF a % 2 = 1 /\ b % 2 = 0 THEN 1 ELSE 0)

\* 0o700, the mode line 93 gives the directory
DirMode == 448
\* 0o600, the mode line 112 gives the file
FileMode == 384
\* 0o777, mkdir's default mode (line 91 passes none)
MkdirMode == 511
\* 0o666, the mode write_text's open() creates a file with (line 110)
CreateMode == 438

\* the mode the platform gives a directory / file the code creates
NewDirMode(e) == AndNot(MkdirMode, e.umask, 9)
NewFileMode(e) == AndNot(CreateMode, e.umask, 9)

----------------------------------------------------------------------------
(* Provider responses (msal), as the dicts the code inspects               *)

\* a response of acquire_token_by_refresh_token / acquire_token_by_device_flow
SuccessResponses ==
    {[access_token |-> a] : a \in AccessTokens}
    \cup {[access_token |-> a, refresh_token |-> t] : a \in AccessTokens, t \in Strings}

FailureResponses ==
    {[correlation_id |-> "c1"],
     [correlation_id |-> "c1", error |-> "invalid_grant"],
     [correlation_id |-> "c1", error_description |-> "AADSTS70000"],
     [correlation_id |-> "c1", error |-> "invalid_grant", error_description |-> "AADSTS70000"],
     [correlation_id |-> "c1", error |-> "invalid_grant", refresh_token |-> <<"a">>]}

Responses == SuccessResponses \cup FailureResponses

\* a response of initiate_device_flow
Flows == {[user_code |-> "ABCD-EFGH", verification_uri |-> "https://microsoft.com/devicelogin"],
          [error |-> "invalid_client"]}

NoResult == [unset |-> TRUE]

----------------------------------------------------------------------------
(* Construction: __init__ and the helpers it calls                         *)

\* lines 26-28
IsContainer(e) == e.dockerenv \/ e.containerenv

\* load_dotenv() (python-dotenv, override=False): a key of the .env file is put into
\* os.environ unless the variable is already set
LoadDotenv(e, environVal) ==
    IF e.dotenv.some /\ ~environVal.some THEN e.dotenv ELSE environVal

\* _get_client_id that returns whatever the environment holds instead of raising
GetClientId_NeverRaises(client_id, environVal, is_container, e) ==
    IF TruthyText(client_id)
    THEN [raised |-> FALSE, value |-> client_id.val, environ |-> environVal]
    ELSE [raised |-> FALSE, value |-> IF environVal.some THEN environVal.val ELSE "",
          environ |-> environVal]

\* _get_client_id: [raised, value, environ], environ being os.environ afterwards
GetClientId(client_id, environVal, is_container, e) ==
    IF TruthyText(client_id)
    THEN [raised |-> FALSE, value |-> client_id.val, environ |-> environVal]
    ELSE IF TruthyText(environVal)
    THEN [raised |-> FALSE, value |-> environVal.val, environ |-> environVal]
    ELSE IF ~is_container /\ e.dotenv_installed
    THEN LET loaded == LoadDotenv(e, environVal)
         IN  IF TruthyText(loaded)
             THEN [raised |-> FALSE, value |-> loaded.val, environ |-> loaded]
             ELSE [raised |-> TRUE, value |-> "", environ |-> loaded]
    ELSE [raised |-> TRUE, value |-> "", environ |-> environVal]

DockerPath == "/run/secrets/ms_refresh_token"
HomePath == "~/.onenote_rag/refresh_token"

\* the path chosen by the container sentinels instead of the secrets directory
ResolveTokenPath_BySentinel(token_path, e) ==
    IF TruthyText(token_path) THEN token_path.val
    ELSE IF IsContainer(e) THEN DockerPath
    ELSE HomePath

\* _resolve_token_path
ResolveTokenPath(token_path, e) ==
    IF TruthyText(token_path) THEN token_path.val
    ELSE IF e.secrets_dir THEN DockerPath
    ELSE HomePath

\* the load without the strip() of line 99
LoadRefreshToken_NoTrim(f, fault) ==
    IF fault # "none" \/ ~f.file_exists THEN [value |-> NoneV, raised |-> FALSE]
    ELSE [value |-> IF f.content # <<>> THEN Some(f.content) ELSE NoneV, raised |-> FALSE]

\* the load without its try/except: what a call raises reaches the caller
LoadRefreshToken_Unguarded(f, fault) ==
    IF fault # "none" THEN [value |-> NoneV, raised |-> TRUE]
    ELSE IF ~f.file_exists THEN [value |-> NoneV, raised |-> FALSE]
    ELSE LET tok == Strip(f.content)
         IN  [value |-> IF tok # <<>> THEN Some(tok) ELSE NoneV, raised |-> FALSE]

\* _load_refresh_token on the file system f; fault names the call that raises, if any
\* (exists() or read_text()): [value, raised], raised saying that the load itself raises.
\* Lines 102-104 catch what the calls raise and return None
LoadRefreshToken(f, fault) ==
    IF fault = "exists" THEN [value |-> NoneV, raised |-> FALSE]
    ELSE IF ~f.file_exists THEN [value |-> NoneV, raised |-> FALSE]
    ELSE IF fault = "read_text" THEN [value |-> NoneV, raised |-> FALSE]
    ELSE LET tok == Strip(f.content)
         IN  [value |-> IF tok # <<>> THEN Some(tok) ELSE NoneV, raised |-> FALSE]

\* the calls of the load that can raise on the file system f: exists() always,
\* read_text() when there is a file to read
LoadFaults(f) == IF f.file_exists THEN {"none", "exists", "read_text"} ELSE {"none", "exists"}

\* lines 68-73: the options the ValueError of _get_client_id lists
ClientIdOptions ==
    <<"Pass as argument: OneNoteAuth(client_id='...')",
      "Set environment variable: MS_CLIENT_ID",
      "Create .env file for local development (only if not in container)">>

\* lines 39-42: msal.PublicClientApplication(client_id, authority=...)
PublicClientApplication(client_id, tenant_id) ==
    [client_id |-> client_id, authority |-> <<"https://login.microsoftonline.com/", tenant_id>>]

NoSelf == [constructed |-> FALSE]
NoOutcome == [kind |-> "none"]
Returned(v) == [kind |-> "returned", value |-> v]
Raised(exc, msg, detail) == [kind |-> "raised", exc |-> exc, msg |-> msg, detail |-> detail]

\* lines 68-73
ClientIdMissing ==
    [kind |-> "raised", exc |-> "ValueError", msg |-> "MS_CLIENT_ID must be set",
     options |-> ClientIdOptions]

\* the values of pc inside a get_access_token call
CallSteps == {"exchange", "initiate", "poll", "mkdir", "chmod_dir", "write_text", "chmod"}

\* overlap after a step that leaves the managers at `after`: a manager inside a call has
\* overlapped once another manager is inside a call too; the mark stays until the
\* manager's next call begins or the manager is gone
Overlap(after) ==
    [o \in Mgrs |->
        IF after[o] \in CallSteps
        THEN \/ pc[o] \in CallSteps /\ overlap[o]
             \/ \E x \in Mgrs \ {o} : after[x] \in CallSteps
        ELSE after[o] = "idle" /\ overlap[o]]

\* the manager granted the latest refresh token, after the response r to m
Latest(m, r, before) ==
    IF "access_token" \in DOMAIN r /\ "refresh_token" \in DOMAIN r THEN m ELSE before

\* the manager granted the latest refresh token, once m has begun another call or is gone
Forget(m, before) == IF before = m THEN "" ELSE before

\* OneNoteAuth(token_path=argv.token_path, client_id=argv.client_id)
Construct(m) ==
    /\ pc[m] = "none"
    /\ LET is_container == IsContainer(env)
           cid == GetClientId(argv.client_id, environ, is_container, env)
       IN  /\ environ' = cid.environ
           /\ IF cid.raised
              THEN /\ outcome' = [outcome EXCEPT ![m] = ClientIdMissing]
                   /\ UNCHANGED <<pc, self, load_fault>>
              ELSE \E fault \in LoadFaults(fs) :
                   LET loaded == LoadRefreshToken(fs, fault)
                   IN  /\ load_fault' = [load_fault EXCEPT ![m] = fault]
                       /\ IF loaded.raised
                          THEN /\ outcome' = [outcome EXCEPT ![m] =
                                      Raised("OSError", "load failed", fault)]
                               /\ UNCHANGED <<pc, self>>
                          ELSE /\ self' = [self EXCEPT ![m] =
                                    [constructed |-> TRUE,
                                     is_container |-> is_container,
                                     client_id |-> cid.value,
                                     tenant_id |-> "common",
                                     scope |-> <<"Notes.Read">>,
                                     token_path |-> ResolveTokenPath(argv.token_path, env),
                                     app |-> PublicClientApplication(cid.value, "common"),
                                     refresh_token |-> loaded.value]]
                               /\ pc' = [pc EXCEPT ![m] = "idle"]
                               /\ outcome' = [outcome EXCEPT ![m] = NoOutcome]
    /\ UNCHANGED <<env, argv, fs, result, flow, token, calls, saves, save_fault, last_saved,
                   interrupted, latest>>
    /\ overlap' = Overlap(pc')

\* the process holding the instance ends (normally, or killed in the middle of a call)
Exit(m) ==
    /\ pc[m] # "none"
    /\ pc' = [pc EXCEPT ![m] = "none"]
    /\ self' = [self EXCEPT ![m] = NoSelf]
    /\ result' = [result EXCEPT ![m] = NoResult]
    /\ flow' = [flow EXCEPT ![m] = NoResult]
    /\ token' = [token EXCEPT ![m] = <<>>]
    /\ calls' = [calls EXCEPT ![m] = <<>>]
    /\ saves' = [saves EXCEPT ![m] = <<>>]
    /\ outcome' = [outcome EXCEPT ![m] = NoOutcome]
    /\ load_fault' = [load_fault EXCEPT ![m] = "none"]
    /\ save_fault' = [save_fault EXCEPT ![m] = ""]
    /\ interrupted' = IF pc[m] \in {"mkdir", "chmod_dir", "write_text", "chmod"}
                      THEN pc[m] ELSE interrupted
    /\ latest' = Forget(m, latest)
    /\ UNCHANGED <<env, argv, environ, fs, last_saved>>
    /\ overlap' = Overlap(pc')

----------------------------------------------------------------------------
(* get_access_token                                                        *)

\* the silent exchange attempted whatever was loaded
HasCachedToken_NotChecked(s) == TRUE

\* line 120: if self.refresh_token
HasCachedToken(s) == Truthy(s.refresh_token)

\* lines 125 and 150: "access_token" in result
Granted(r) == "access_token" \in DOMAIN r

\* the refresh token of a response is not looked for
IssuedRefresh_Never(r) == FALSE

\* lines 127 and 152: "refresh_token" in result
IssuedRefresh(r) == "refresh_token" \in DOMAIN r

\* the device flow is polled whatever initiation answered
FlowCreated_NotChecked(fl) == TRUE

\* line 138: "user_code" in flow
FlowCreated(fl) == "user_code" \in DOMAIN fl

\* lines 129 and 154: the value returned
ReturnValue(r) == r.access_token

\* the error code preferred to the error description
AuthError_CodeFirst(r) ==
    IF "error" \in DOMAIN r THEN r.error
    ELSE IF "error_description" \in DOMAIN r THEN r.error_description
    ELSE "Unknown error"

\* lines 156-158: result.get("error_description", result.get("error", "Unknown error"))
AuthError(r) ==
    IF "error_description" \in DOMAIN r THEN r.error_description
    ELSE IF "error" \in DOMAIN r THEN r.error
    ELSE "Unknown error"

\* line 139
FlowFailed(fl) ==
    [kind |-> "raised", exc |-> "ValueError", msg |-> "Failed to create device flow",
     flow |-> fl]

\* line 159
AuthFailed(r) ==
    [kind |-> "raised", exc |-> "Exception", msg |-> "Authentication failed",
     error |-> AuthError(r)]

\* lines 114-116: the exception of the failing step, re-raised
SaveFailed(step) ==
    [kind |-> "raised", exc |-> "OSError", msg |-> "save failed", step |-> step]

\* line 90: the first step of _ensure_token_dir on the file system f
EnsureDirStart(f) == IF ~f.dir_exists THEN "mkdir" ELSE "write_text"

\* lines 92 and 111: os.name != "nt"
Posix(e) == e.os_name # "nt"

\* the access token is what the call passes to _save_refresh_token
Grant_SavesAccessToken(m, r, done) ==
    /\ token' = [token EXCEPT ![m] = <<r.access_token>>]
    /\ saves' = [saves EXCEPT ![m] = Append(done, <<r.access_token>>)]
    /\ pc' = [pc EXCEPT ![m] = EnsureDirStart(fs)]
    /\ outcome' = [outcome EXCEPT ![m] = NoOutcome]
    /\ UNCHANGED fs

\* a response without a refresh token is saved too, as an empty token
Grant_AlwaysSaves(m, r, done) ==
    LET tok == IF "refresh_token" \in DOMAIN r THEN r.refresh_token ELSE <<>>
    IN  /\ token' = [token EXCEPT ![m] = tok]
        /\ saves' = [saves EXCEPT ![m] = Append(done, tok)]
        /\ pc' = [pc EXCEPT ![m] = EnsureDirStart(fs)]
        /\ outcome' = [outcome EXCEPT ![m] = NoOutcome]
        /\ UNCHANGED fs

\* lines 125-129 and 150-154: a response with an access token; done is the list of
\* saves the call has made so far
Grant(m, r, done) ==
    IF IssuedRefresh(r)
    THEN /\ token' = [token EXCEPT ![m] = r.refresh_token]
         /\ saves' = [saves EXCEPT ![m] = Append(done, r.refresh_token)]
         /\ pc' = [pc EXCEPT ![m] = EnsureDirStart(fs)]
         /\ outcome' = [outcome EXCEPT ![m] = NoOutcome]
         /\ UNCHANGED fs
    ELSE /\ token' = [token EXCEPT ![m] = <<>>]
         /\ saves' = [saves EXCEPT ![m] = done]
         /\ pc' = [pc EXCEPT ![m] = "idle"]
         /\ outcome' = [outcome EXCEPT ![m] = Returned(ReturnValue(r))]
         /\ UNCHANGED fs

\* a rejected exchange ends the call with an error
OnSilentFailure_Raises(m, r) ==
    /\ pc' = [pc EXCEPT ![m] = "idle"]
    /\ outcome' = [outcome EXCEPT ![m] = AuthFailed(r)]
    /\ UNCHANGED fs

\* a rejected exchange removes the token file before the call goes on
OnSilentFailure_DropsToken(m, r) ==
    /\ pc' = [pc EXCEPT ![m] = "initiate"]
    /\ outcome' = [outcome EXCEPT ![m] = NoOutcome]
    /\ fs' = [fs EXCEPT !.file_exists = FALSE, !.file_mode = 0, !.content = <<>>]

\* a rejected exchange is tried a second time before the call goes on to the device flow
OnSilentFailure_Retries(m, r) ==
    /\ pc' = [pc EXCEPT ![m] = IF calls[m] = <<>> THEN "exchange" ELSE "initiate"]
    /\ outcome' = [outcome EXCEPT ![m] = NoOutcome]
    /\ UNCHANGED fs

\* lines 130-134: the exchange was rejected; the call goes on to the device flow
OnSilentFailure(m, r) ==
    /\ pc' = [pc EXCEPT ![m] = "initiate"]
    /\ outcome' = [outcome EXCEPT ![m] = NoOutcome]
    /\ UNCHANGED fs

\* the log of provider calls: the operation, the refresh token sent (NoneV when the
\* operation takes none) and whether the response carried the key the code looks for
RefreshCall(s, r) ==
    [op |-> "acquire_token_by_refresh_token", arg |-> s.refresh_token,
     ok |-> "access_token" \in DOMAIN r]
InitiateCall(fl) ==
    [op |-> "initiate_device_flow", arg |-> NoneV, ok |-> "user_code" \in DOMAIN fl]
DeviceCall(r) ==
    [op |-> "acquire_token_by_device_flow", arg |-> NoneV,
     ok |-> "access_token" \in DOMAIN r]

\* lines 118-120: get_access_token is called; with a cached refresh token the
\* exchange comes next, without one the device flow
GetAccessToken(m) ==
    /\ pc[m] = "idle"
    /\ pc' = [pc EXCEPT ![m] = IF HasCachedToken(self[m]) THEN "exchange" ELSE "initiate"]
    /\ result' = [result EXCEPT ![m] = NoResult]
    /\ flow' = [flow EXCEPT ![m] = NoResult]
    /\ token' = [token EXCEPT ![m] = <<>>]
    /\ calls' = [calls EXCEPT ![m] = <<>>]
    /\ saves' = [saves EXCEPT ![m] = <<>>]
    /\ outcome' = [outcome EXCEPT ![m] = NoOutcome]
    /\ save_fault' = [save_fault EXCEPT ![m] = ""]
    /\ latest' = Forget(m, latest)
    /\ UNCHANGED <<env, argv, environ, fs, self, load_fault, last_saved, interrupted>>
    /\ overlap' = Overlap(pc')

\* lines 122-134: acquire_token_by_refresh_token with the cached refresh token
SilentRefresh(m) ==
    /\ pc[m] = "exchange"
    /\ \E r \in Responses :
         /\ result' = [result EXCEPT ![m] = r]
         /\ latest' = Latest(m, r, latest)
         /\ calls' = [calls EXCEPT ![m] = Append(calls[m], RefreshCall(self[m], r))]
         /\ IF Granted(r)
            THEN Grant(m, r, saves[m])
            ELSE /\ OnSilentFailure(m, r)
                 /\ UNCHANGED <<token, saves>>
    /\ UNCHANGED <<env, argv, environ, self, flow, load_fault, save_fault, last_saved,
                   interrupted>>
    /\ overlap' = Overlap(pc')

\* lines 137-146: initiate_device_flow, in a call without a cached refresh token or
\* after a rejected exchange
InitiateDeviceFlow(m) ==
    /\ pc[m] = "initiate"
    /\ \E fl \in Flows :
         /\ flow' = [flow EXCEPT ![m] = fl]
         /\ IF FlowCreated(fl)
            THEN /\ pc' = [pc EXCEPT ![m] = "poll"]
                 /\ outcome' = [outcome EXCEPT ![m] = NoOutcome]
            ELSE /\ pc' = [pc EXCEPT ![m] = "idle"]
                 /\ outcome' = [outcome EXCEPT ![m] = FlowFailed(fl)]
         /\ calls' = [calls EXCEPT ![m] = Append(calls[m], InitiateCall(fl))]
    /\ UNCHANGED <<env, argv, environ, fs, self, result, token, saves, load_fault,
                   save_fault, last_saved, interrupted, latest>>
    /\ overlap' = Overlap(pc')

\* lines 148-159: acquire_token_by_device_flow blocks until the provider answers
AcquireByDeviceFlow(m) ==
    /\ pc[m] = "poll"
    /\ \E r \in Responses :
         /\ result' = [result EXCEPT ![m] = r]
         /\ latest' = Latest(m, r, latest)
         /\ IF Granted(r)
            THEN Grant(m, r, saves[m])
            ELSE /\ pc' = [pc EXCEPT ![m] = "idle"]
                 /\ outcome' = [outcome EXCEPT ![m] = AuthFailed(r)]
                 /\ UNCHANGED <<fs, token, saves>>
         /\ calls' = [calls EXCEPT ![m] = Append(calls[m], DeviceCall(r))]
    /\ UNCHANGED <<env, argv, environ, self, flow, load_fault, save_fault, last_saved,
                   interrupted>>
    /\ overlap' = Overlap(pc')

----------------------------------------------------------------------------
(* _save_refresh_token, one file-system call at a time                     *)

\* the save is complete: line 129 / 154 returns the access token
SaveReturns(m) ==
    /\ pc' = [pc EXCEPT ![m] = "idle"]
    /\ interrupted' = ""
    /\ outcome' = [outcome EXCEPT ![m] = Returned(ReturnValue(result[m]))]

\* the except block logs and does not re-raise: the call goes on to its return
SaveRaises_Swallowed(m, step) == SaveReturns(m)

\* a step of the save raises: lines 114-116 re-raise, get_access_token ends
SaveRaises(m, step) ==
    /\ pc' = [pc EXCEPT ![m] = "idle"]
    /\ interrupted' = ""
    /\ outcome' = [outcome EXCEPT ![m] = SaveFailed(step)]

\* line 91: mkdir(parents=True, exist_ok=True)
MkdirEffect(f, e) ==
    IF f.dir_exists THEN f
    ELSE [f EXCEPT !.dir_exists = TRUE, !.dir_mode = NewDirMode(e)]

\* lines 92-93: the step after mkdir
AfterMkdir(e) == IF Posix(e) THEN "chmod_dir" ELSE "write_text"

Mkdir(m) ==
    /\ pc[m] = "mkdir"
    /\ \/ /\ fs' = MkdirEffect(fs, env)
          /\ pc' = [pc EXCEPT ![m] = AfterMkdir(env)]
          /\ UNCHANGED <<outcome, save_fault, interrupted>>
       \/ /\ SaveRaises(m, "mkdir")
          /\ save_fault' = [save_fault EXCEPT ![m] = "mkdir"]
          /\ UNCHANGED fs
    /\ UNCHANGED <<env, argv, environ, self, result, flow, token, calls, saves,
                   load_fault, last_saved, latest>>
    /\ overlap' = Overlap(pc')

\* line 93: os.chmod(self.token_path.parent, 0o700)
ChmodDirEffect(f) == [f EXCEPT !.dir_mode = DirMode]

ChmodDir(m) ==
    /\ pc[m] = "chmod_dir"
    /\ \/ /\ fs' = ChmodDirEffect(fs)
          /\ pc' = [pc EXCEPT ![m] = "write_text"]
          /\ UNCHANGED <<outcome, save_fault, interrupted>>
       \/ /\ SaveRaises(m, "chmod_dir")
          /\ save_fault' = [save_fault EXCEPT ![m] = "chmod_dir"]
          /\ UNCHANGED fs
    /\ UNCHANGED <<env, argv, environ, self, result, flow, token, calls, saves,
                   load_fault, last_saved, latest>>
    /\ overlap' = Overlap(pc')

\* write_text leaves an existing file as it is
WriteTextEffect_KeepsExisting(f, e, tok) ==
    IF f.file_exists THEN f
    ELSE [f EXCEPT !.file_exists = TRUE, !.file_mode = NewFileMode(e), !.content = tok]

\* line 110: write_text(token) opens the file for writing (creating it with the
\* platform's default mode, or truncating it and keeping its mode) and writes
WriteTextEffect(f, e, tok) ==
    [f EXCEPT !.file_exists = TRUE,
              !.file_mode = IF f.file_exists THEN f.file_mode ELSE NewFileMode(e),
              !.content = tok]

\* lines 111-112: the step after write_text
AfterWrite(e) == IF Posix(e) THEN "chmod" ELSE "return"

WriteText(m) ==
    /\ pc[m] = "write_text"
    /\ \/ /\ fs' = WriteTextEffect(fs, env, token[m])
          /\ IF AfterWrite(env) = "return"
             THEN /\ SaveReturns(m)
                  /\ last_saved' = Some(token[m])
             ELSE /\ pc' = [pc EXCEPT ![m] = AfterWrite(env)]
                  /\ last_saved' = NoneV
                  /\ UNCHANGED <<outcome, interrupted>>
          /\ UNCHANGED save_fault
       \/ \* open() raises: the file is as it was
          /\ SaveRaises(m, "write_text")
          /\ save_fault' = [save_fault EXCEPT ![m] = "write_text"]
          /\ UNCHANGED <<fs, last_saved>>
       \/ \* the write raises after open() has created or truncated the file
          /\ fs' = WriteTextEffect(fs, env, <<>>)
          /\ SaveRaises(m, "write_text")
          /\ save_fault' = [save_fault EXCEPT ![m] = "write_text"]
          /\ last_saved' = NoneV
    /\ UNCHANGED <<env, argv, environ, self, result, flow, token, calls, saves, load_fault,
                   latest>>
    /\ overlap' = Overlap(pc')

\* line 112: self.token_path.chmod(0o600)
ChmodFileEffect(f) == [f EXCEPT !.file_mode = FileMode]

ChmodFile(m) ==
    /\ pc[m] = "chmod"
    /\ \/ /\ fs' = ChmodFileEffect(fs)
          /\ SaveReturns(m)
          /\ last_saved' = Some(token[m])
          /\ UNCHANGED save_fault
       \/ /\ SaveRaises(m, "chmod")
          /\ save_fault' = [save_fault EXCEPT ![m] = "chmod"]
          /\ UNCHANGED <<fs, last_saved>>
    /\ UNCHANGED <<env, argv, environ, self, result, flow, token, calls, saves, load_fault,
                   latest>>
    /\ overlap' = Overlap(pc')

----------------------------------------------------------------------------
(* The specification                                                       *)

NoDir == [dir_exists |-> FALSE, dir_mode |-> 0, file_exists |-> FALSE, file_mode |-> 0,
          content |-> <<>>]

\* the storage location before the program first runs: no directory, or a directory
\* (owner-only or 0o755) without a file or with a file (owner-only or 0o644)
FsStates ==
    {NoDir}
    \cup {[NoDir EXCEPT !.dir_exists = TRUE, !.dir_mode = dm] : dm \in {DirMode, 493}}
    \cup {[dir_exists |-> TRUE, dir_mode |-> dm, file_exists |-> TRUE, file_mode |-> fm,
           content |-> c] : dm \in {DirMode, 493}, fm \in {FileMode, 420}, c \in Strings}

\* the platforms: POSIX with umask 0o022 or 0o077, Windows
Platforms ==
    {[os_name |-> o, umask |-> u, dockerenv |-> FALSE, containerenv |-> FALSE,
      dotenv_installed |-> FALSE, dotenv |-> NoneV, secrets_dir |-> sd] :
        o \in {"posix", "nt"}, u \in {18, 63}, sd \in BOOLEAN}

Arguments ==
    [client_id : {NoneV, Some("cid")}, token_path : {NoneV, Some("/custom/refresh_token")}]

\* Windows has no umask; an explicit token path is given where there is no secrets
\* directory; the parent of DockerPath is the secrets directory, which exists
Coherent(e, a, f) ==
    /\ e.os_name = "nt" => e.umask = 18
    /\ TruthyText(a.token_path) => ~e.secrets_dir
    /\ ResolveTokenPath(a.token_path, e) = DockerPath => f.dir_exists

Init ==
    /\ env \in Platforms
    /\ argv \in Arguments
    /\ fs \in FsStates
    /\ Coherent(env, argv, fs)
    /\ environ = NoneV
    /\ pc = [m \in Mgrs |-> "none"]
    /\ self = [m \in Mgrs |-> NoSelf]
    /\ result = [m \in Mgrs |-> NoResult]
    /\ flow = [m \in Mgrs |-> NoResult]
    /\ token = [m \in Mgrs |-> <<>>]
    /\ calls = [m \in Mgrs |-> <<>>]
    /\ saves = [m \in Mgrs |-> <<>>]
    /\ outcome = [m \in Mgrs |-> NoOutcome]
    /\ load_fault = [m \in Mgrs |-> "none"]
    /\ save_fault = [m \in Mgrs |-> ""]
    /\ last_saved = NoneV
    /\ interrupted = ""
    /\ latest = ""
    /\ overlap = [m \in Mgrs |-> FALSE]

Step(m) ==
    \/ Construct(m)
    \/ Exit(m)
    \/ GetAccessToken(m)
    \/ SilentRefresh(m)
    \/ InitiateDeviceFlow(m)
    \/ AcquireByDeviceFlow(m)
    \/ Mkdir(m)
    \/ ChmodDir(m)
    \/ WriteText(m)
    \/ ChmodFile(m)

\* one manager at a time uses the storage location (section 5 of the design)
Next == Step("m1")

Spec == Init /\ [][Next]_vars

----------------------------------------------------------------------------
(* Vocabulary of the properties                                            *)

OpRefresh == "acquire_token_by_refresh_token"
OpInitiate == "initiate_device_flow"
OpDevice == "acquire_token_by_device_flow"

HasKey(r, k) == k \in DOMAIN r

\* the operations of manager m's current call, in the order they were called
Ops(m) == [i \in DOMAIN calls[m] |-> calls[m][i].op]

\* the current call of m began with a silent exchange, answered with / without an
\* access token
SilentGranted(m) == calls[m] # <<>> /\ calls[m][1].op = OpRefresh /\ calls[m][1].ok
SilentRejected(m) == calls[m] # <<>> /\ calls[m][1].op = OpRefresh /\ ~calls[m][1].ok

\* the steps of _save_refresh_token
SaveSteps == {"mkdir", "chmod_dir", "write_text", "chmod"}

\* m's call has ended by returning the access token of `result`
ReturnedToken(m) ==
    /\ pc[m] = "idle"
    /\ outcome[m].kind = "returned"
    /\ HasKey(result[m], "access_token")
    /\ outcome[m].value = result[m].access_token

\* the refresh token of `result`, if it has one, was passed to save, and the file holds it
Persisted(m) ==
    HasKey(result[m], "refresh_token") =>
        /\ saves[m] = <<result[m].refresh_token>>
        /\ fs.file_exists
        /\ fs.content = result[m].refresh_token

\* m's call ended because a step of the save raised
SaveError(m) ==
    /\ pc[m] = "idle"
    /\ outcome[m].kind = "raised"
    /\ outcome[m].exc = "OSError"

----------------------------------------------------------------------------
(* C1 (Scenario B): a call that starts with a loaded refresh token and whose *)
(* silent exchange is answered with an access token makes no device-flow    *)
(* call; when it returns, it returns that access token, and the response's  *)
(* refresh token, if any, has been passed to save and is in the file; the   *)
(* only other way the call ends is a failure of that save.                  *)
C1_SilentSuccess ==
    \A m \in Mgrs :
        SilentGranted(m) =>
            /\ Truthy(calls[m][1].arg)
            /\ Ops(m) = <<OpRefresh>>
            /\ HasKey(result[m], "access_token")
            /\ pc[m] \in {"idle"} \cup SaveSteps
            /\ Len(saves[m]) <= 1
            /\ pc[m] = "idle" =>
                   \/ ReturnedToken(m) /\ Persisted(m)
                   \/ SaveError(m) /\ HasKey(result[m], "refresh_token")
            /\ pc[m] # "idle" => HasKey(result[m], "refresh_token")

C1_Witness ==
    /\ SilentGranted("m1")
    /\ ReturnedToken("m1")
    /\ outcome["m1"].value = "at2"
    /\ saves["m1"] = <<<<"a", "a">>>>
    /\ fs.content = <<"a", "a">>
    /\ self["m1"].refresh_token = Some(<<"a">>)

(* C2 (Scenario C): a silent exchange answered without an access token does *)
(* not end the call: the next step is device-flow initiation, then          *)
(* device-flow completion, in that order after the exchange; a completion   *)
(* response with an access token ends the call by returning that token      *)
(* (or by a failure of the save).                                           *)
C2_SilentFallback ==
    \A m \in Mgrs :
        SilentRejected(m) =>
            /\ Len(calls[m]) = 1 => pc[m] = "initiate" /\ outcome[m].kind = "none"
            /\ Len(calls[m]) = 2 => Ops(m) = <<OpRefresh, OpInitiate>>
            /\ Len(calls[m]) >= 3 => Ops(m) = <<OpRefresh, OpInitiate, OpDevice>>
            /\ Len(calls[m]) = 3 => calls[m][2].ok
            /\ (Len(calls[m]) = 3 /\ HasKey(result[m], "access_token") /\ pc[m] = "idle") =>
                   ReturnedToken(m) \/ SaveError(m)

C2_Witness ==
    /\ SilentRejected("m1")
    /\ Ops("m1") = <<OpRefresh, OpInitiate, OpDevice>>
    /\ ReturnedToken("m1")
    /\ outcome["m1"].value = "at1"

(* C3 (Scenario A): a manager that loaded no refresh token never calls the  *)
(* refresh-token exchange; its call makes device-flow initiation, then      *)
(* completion, and nothing else; when it returns, it returns the access     *)
(* token of the completion response, whose refresh token, if any, has been  *)
(* saved.                                                                   *)
C3_InteractiveOnly ==
    \A m \in Mgrs :
        (pc[m] # "none" /\ ~Truthy(self[m].refresh_token)) =>
            /\ \A i \in DOMAIN calls[m] : calls[m][i].op # OpRefresh
            /\ pc[m] # "exchange"
            /\ Ops(m) \in {<<>>, <<OpInitiate>>, <<OpInitiate, OpDevice>>}
            /\ outcome[m].kind = "returned" =>
                   /\ Ops(m) = <<OpInitiate, OpDevice>>
                   /\ ReturnedToken(m)
                   /\ Persisted(m)

C3_Witness ==
    /\ self["m1"].constructed
    /\ self["m1"].refresh_token = NoneV
    /\ Ops("m1") = <<OpInitiate, OpDevice>>
    /\ ReturnedToken("m1")
    /\ HasKey(result["m1"], "refresh_token")
    /\ fs.content = result["m1"].refresh_token
    /\ fs.content = <<"a">>

(* C4: after a call that returns with a response carrying a refresh token,  *)
(* the manager's refresh token (what its next silent exchange sends) is     *)
(* that token, and so is the content of the token file.                     *)
C4_RefreshReplaced ==
    \A m \in Mgrs :
        (pc[m] = "idle" /\ outcome[m].kind = "returned"
            /\ HasKey(result[m], "refresh_token")) =>
            /\ self[m].refresh_token = Some(result[m].refresh_token)
            /\ fs.file_exists
            /\ fs.content = result[m].refresh_token

\* the file system changes only in a step of a save
WritesOnlyInSave ==
    fs' # fs => \E m \in Mgrs : pc[m] \in SaveSteps /\ saves[m] # <<>>

(* C5 (Scenario E): once device-flow initiation has answered without a user *)
(* code, the call is over with a ValueError carrying the response: no       *)
(* completion call, no access token returned, no save entered (and the file *)
(* system changes in the steps of a save only), whether or not a silent     *)
(* exchange came first.                                                     *)
C5_NoUserCode ==
    /\ [](\A m \in Mgrs :
            (flow[m] # NoResult /\ ~HasKey(flow[m], "user_code")) =>
                /\ Ops(m) \in {<<OpInitiate>>, <<OpRefresh, OpInitiate>>}
                /\ pc[m] = "idle"
                /\ outcome[m].kind = "raised"
                /\ outcome[m].exc = "ValueError"
                /\ outcome[m].flow = flow[m]
                /\ saves[m] = <<>>
                /\ save_fault[m] = "")
    /\ [][WritesOnlyInSave]_vars

C5_Witness ==
    /\ flow["m1"] = [error |-> "invalid_client"]
    /\ Ops("m1") = <<OpRefresh, OpInitiate>>
    /\ outcome["m1"].kind = "raised"
    /\ fs.file_exists /\ fs.content = <<"a">>

\* what the raised error carries for the response r
ExpectedAuthError(r) ==
    CASE HasKey(r, "error_description") -> r.error_description
      [] ~HasKey(r, "error_description") /\ HasKey(r, "error") -> r.error
      [] OTHER -> "Unknown error"

(* C6: once device-flow completion has answered without an access token,    *)
(* the call is over with the authentication-failure error, which carries    *)
(* the response's error description, else its error code, else the          *)
(* unknown-error text; nothing was returned, no save was entered and the    *)
(* completion call is the call's last provider call.                        *)
C6_CompletionFailure ==
    \A m \in Mgrs :
        (calls[m] # <<>> /\ calls[m][Len(calls[m])].op = OpDevice
            /\ ~HasKey(result[m], "access_token")) =>
            /\ pc[m] = "idle"
            /\ outcome[m].kind = "raised"
            /\ outcome[m].exc = "Exception"
            /\ outcome[m].msg = "Authentication failed"
            /\ outcome[m].error = ExpectedAuthError(result[m])
            /\ saves[m] = <<>>
            /\ save_fault[m] = ""
            /\ Ops(m) \in {<<OpInitiate, OpDevice>>, <<OpRefresh, OpInitiate, OpDevice>>}

C6_Witness ==
    /\ Ops("m1") = <<OpRefresh, OpInitiate, OpDevice>>
    /\ result["m1"] = [correlation_id |-> "c1", error |-> "invalid_grant",
                       error_description |-> "AADSTS70000"]
    /\ outcome["m1"].kind = "raised"
    /\ outcome["m1"].error = "AADSTS70000"

(* C7: a save step that raises (mkdir, chmod of the directory, write_text,  *)
(* chmod of the file) ends get_access_token with that error, on the silent  *)
(* and on the device path alike: the access token is not returned; and a    *)
(* call that returns a response carrying a refresh token has run the save   *)
(* for it, without a failure, before returning.                             *)
C7_SaveFailureFatal ==
    \A m \in Mgrs :
        /\ save_fault[m] # "" =>
               /\ pc[m] = "idle"
               /\ outcome[m].kind = "raised"
               /\ outcome[m].exc = "OSError"
               /\ outcome[m].step = save_fault[m]
               /\ saves[m] # <<>>
               /\ HasKey(result[m], "access_token")
        /\ (outcome[m].kind = "returned" /\ HasKey(result[m], "refresh_token")) =>
               /\ saves[m] = <<result[m].refresh_token>>
               /\ save_fault[m] = ""

C7_Witness ==
    /\ save_fault["m1"] = "chmod"
    /\ Ops("m1") = <<OpRefresh, OpInitiate, OpDevice>>
    /\ outcome["m1"].kind = "raised"
    /\ fs.content = <<"a", "a">>
    /\ result["m1"] = [access_token |-> "at1", refresh_token |-> <<"a", "a">>]

\* m is constructed in this step
Constructed(m) == pc[m] = "none" /\ pc'[m] = "idle"

\* what the load returns on the file system f when the call `fault` raises
ExpectedLoad(f, fault) ==
    IF fault # "none" \/ ~f.file_exists \/ Strip(f.content) = <<>>
    THEN NoneV
    ELSE Some(Strip(f.content))

(* C8: the load at construction returns None when the file does not exist,  *)
(* when exists() or read_text() raises, and when the content is empty after *)
(* trimming, else the trimmed content; construction raises for a missing    *)
(* client id only, never for the load; a manager that loaded None starts    *)
(* its call with device-flow initiation.                                    *)
C8_LoadNeverFatal ==
    /\ [][\A m \in Mgrs :
            Constructed(m) =>
                self'[m].refresh_token = ExpectedLoad(fs, load_fault'[m])]_vars
    /\ [](\A m \in Mgrs :
            (pc[m] = "none" /\ outcome[m].kind = "raised") =>
                /\ outcome[m].exc = "ValueError"
                /\ outcome[m].msg = "MS_CLIENT_ID must be set"
                /\ ~TruthyText(argv.client_id))
    /\ [](\A m \in Mgrs :
            (pc[m] # "none" /\ self[m].refresh_token = NoneV) =>
                /\ pc[m] # "exchange"
                /\ calls[m] # <<>> => calls[m][1].op = OpInitiate)

C8_Witness ==
    /\ load_fault["m1"] = "read_text"
    /\ fs.file_exists /\ fs.content = <<"a">>
    /\ self["m1"].constructed
    /\ self["m1"].refresh_token = NoneV
    /\ Ops("m1") = <<OpInitiate>>

\* what a load without a fault returns for a file holding v
Trimmed(v) == IF Strip(v) = <<>> THEN NoneV ELSE Some(Strip(v))

(* C9, as stated: a completed save of v followed by a load gives exactly v, *)
(* and the file's mode after the save is 0o600 (the permission bits being   *)
(* those of a POSIX platform, where the code sets them).                    *)
C9_RoundTripExact ==
    /\ [][\A m \in Mgrs :
            (Constructed(m) /\ last_saved.some /\ load_fault'[m] = "none") =>
                self'[m].refresh_token = Some(last_saved.val)]_vars
    /\ [](last_saved.some =>
            /\ fs.file_exists
            /\ env.os_name # "nt" => fs.file_mode = FileMode)

(* C9, amended: a completed save of v followed by a load that does not fail *)
(* gives v with its leading and trailing whitespace removed, or None when   *)
(* nothing remains (so exactly v when v is not empty and neither starts nor *)
(* ends with whitespace); the file holds v, and its mode after the save is  *)
(* 0o600 (the permission bits being those of a POSIX platform).             *)
C9_RoundTripTrimmed ==
    /\ [][\A m \in Mgrs :
            (Constructed(m) /\ last_saved.some /\ load_fault'[m] = "none") =>
                /\ self'[m].refresh_token = Trimmed(last_saved.val)
                /\ (last_saved.val # <<>> /\ Strip(last_saved.val) = last_saved.val) =>
                       self'[m].refresh_token = Some(last_saved.val)]_vars
    /\ [](last_saved.some =>
            /\ fs.file_exists
            /\ fs.content = last_saved.val
            /\ env.os_name # "nt" => fs.file_mode = FileMode)

C9_Witness ==
    /\ last_saved = Some(<<"a", " ">>)
    /\ pc["m1"] = "idle" /\ calls["m1"] = <<>>
    /\ load_fault["m1"] = "none"
    /\ self["m1"].refresh_token = Some(<<"a">>)
    /\ fs.file_mode = FileMode

(* C10: after a completed save on a non-Windows platform the parent         *)
(* directory exists with mode 0o700 and the file has mode 0o600, whatever   *)
(* the directory was before the save.                                       *)
C10_DirOwnerOnly ==
    (last_saved.some /\ env.os_name # "nt") =>
        /\ fs.dir_exists
        /\ fs.dir_mode = DirMode
        /\ fs.file_exists
        /\ fs.file_mode = FileMode

----------------------------------------------------------------------------
(* Construction under every configuration: explicit arguments present,     *)
(* empty or absent, MS_CLIENT_ID set, empty or unset, both container       *)
(* sentinels, a .env file with or without the variable, python-dotenv      *)
(* installed or not, /run/secrets present or not                           *)

\* home_dir: whether ~/.onenote_rag exists when the program starts
ConfigPlatforms ==
    {[os_name |-> "posix", umask |-> 18, dockerenv |-> d, containerenv |-> c,
      dotenv_installed |-> di, dotenv |-> dv, secrets_dir |-> sd, home_dir |-> hd] :
        d \in BOOLEAN, c \in BOOLEAN, di \in BOOLEAN,
        dv \in {NoneV, Some(""), Some("dot-id")}, sd \in BOOLEAN, hd \in BOOLEAN}

ConfigArguments ==
    [client_id : {NoneV, Some(""), Some("arg-id")},
     token_path : {NoneV, Some(""), Some("/custom/refresh_token")}]

ConfigEnviron == {NoneV, Some(""), Some("env-id")}

\* the storage location is the directory the resolved path names: /run/secrets exists
\* when it is chosen, ~/.onenote_rag is there or not as the platform says
ConfigCoherent(e, a, f) ==
    /\ ResolveTokenPath(a.token_path, e) = DockerPath => f.dir_exists
    /\ ResolveTokenPath(a.token_path, e) = HomePath => (f.dir_exists <=> e.home_dir)

ConfigFsStates ==
    {NoDir,
     [NoDir EXCEPT !.dir_exists = TRUE, !.dir_mode = DirMode],
     [dir_exists |-> TRUE, dir_mode |-> DirMode, file_exists |-> TRUE,
      file_mode |-> FileMode, content |-> <<"a">>]}

ConfigInit ==
    /\ env \in ConfigPlatforms
    /\ argv \in ConfigArguments
    /\ environ \in ConfigEnviron
    /\ fs \in ConfigFsStates
    /\ ConfigCoherent(env, argv, fs)
    /\ pc = [m \in Mgrs |-> "none"]
    /\ self = [m \in Mgrs |-> NoSelf]
    /\ result = [m \in Mgrs |-> NoResult]
    /\ flow = [m \in Mgrs |-> NoResult]
    /\ token = [m \in Mgrs |-> <<>>]
    /\ calls = [m \in Mgrs |-> <<>>]
    /\ saves = [m \in Mgrs |-> <<>>]
    /\ outcome = [m \in Mgrs |-> NoOutcome]
    /\ load_fault = [m \in Mgrs |-> "none"]
    /\ save_fault = [m \in Mgrs |-> ""]
    /\ last_saved = NoneV
    /\ interrupted = ""
    /\ latest = ""
    /\ overlap = [m \in Mgrs |-> FALSE]

ConfigNext == Construct("m1") \/ Exit("m1")

ConfigSpec == ConfigInit /\ [][ConfigNext]_vars

\* a step in which OneNoteAuth(...) is evaluated for manager m
ConstructStep(m) ==
    /\ pc[m] = "none"
    /\ pc'[m] = "idle" \/ outcome'[m] # outcome[m]

\* one of the container sentinel paths exists
Sentinel == env.dockerenv \/ env.containerenv

\* the first non-empty of: the explicit argument, MS_CLIENT_ID, and (outside a
\* container) the variable's value in the .env file; NoneV when there is none
FirstNonEmptySource ==
    IF argv.client_id.some /\ argv.client_id.val # "" THEN argv.client_id
    ELSE IF environ.some /\ environ.val # "" THEN environ
    ELSE IF ~Sentinel /\ env.dotenv.some /\ env.dotenv.val # "" THEN env.dotenv
    ELSE NoneV

(* C11: the client id of a construction is the first non-empty source in   *)
(* the order explicit argument, MS_CLIENT_ID, .env file (the last outside  *)
(* a container only); construction fails only when there is none; an       *)
(* explicit or environment value is used without loading the .env file,    *)
(* and a container never loads it.  Stated where python-dotenv is          *)
(* importable.                                                             *)
C11_FirstNonEmpty ==
    [][\A m \in Mgrs :
        (ConstructStep(m) /\ env.dotenv_installed) =>
            /\ FirstNonEmptySource.some =>
                   /\ pc'[m] = "idle"
                   /\ self'[m].client_id = FirstNonEmptySource.val
            /\ ~FirstNonEmptySource.some => pc'[m] = "none" /\ outcome'[m].kind = "raised"
            /\ (argv.client_id.some /\ argv.client_id.val # "") => environ' = environ
            /\ (environ.some /\ environ.val # "") => environ' = environ
            /\ Sentinel => environ' = environ]_vars

(* C12 (Scenario D): a construction for which neither the explicit         *)
(* argument, nor MS_CLIENT_ID, nor (outside a container) the .env file     *)
(* gives a non-empty client id raises the ValueError that lists the three  *)
(* options; no instance results (so no msal application and no loaded      *)
(* refresh token), the storage location is untouched, and a manager that   *)
(* does not exist has made no provider call.                               *)
C12_ConfigurationError ==
    /\ [](\A m \in Mgrs : pc[m] = "none" => self[m] = NoSelf /\ calls[m] = <<>>)
    /\ [][\A m \in Mgrs :
            (ConstructStep(m) /\ ~FirstNonEmptySource.some) =>
                /\ outcome'[m].kind = "raised"
                /\ outcome'[m].exc = "ValueError"
                /\ Len(outcome'[m].options) = 3
                /\ pc'[m] = "none"
                /\ self'[m] = NoSelf
                /\ load_fault'[m] = load_fault[m]
                /\ calls'[m] = <<>>
                /\ fs' = fs]_vars

C12_Witness ==
    /\ pc["m1"] = "none"
    /\ outcome["m1"].kind = "raised"
    /\ argv.client_id = Some("")
    /\ environ = Some("")
    /\ env.dockerenv /\ ~env.containerenv
    /\ env.dotenv = Some("dot-id") /\ env.dotenv_installed
    /\ fs.file_exists

(* C13: the token path of a constructed manager is the explicit token_path *)
(* when that is non-empty; otherwise /run/secrets/ms_refresh_token when    *)
(* /run/secrets exists and ~/.onenote_rag/refresh_token when it does not:  *)
(* a function of these two inputs alone, whatever the container sentinels  *)
(* and the home directory are.                                             *)
C13_LocationByOverrideAndMount ==
    \A m \in Mgrs :
        pc[m] # "none" =>
            self[m].token_path =
                IF argv.token_path.some /\ argv.token_path.val # ""
                THEN argv.token_path.val
                ELSE IF env.secrets_dir THEN DockerPath ELSE HomePath

C13_Witness ==
    /\ pc["m1"] = "idle"
    /\ self["m1"].token_path = DockerPath
    /\ argv.token_path = Some("")
    /\ env.secrets_dir /\ env.home_dir
    /\ ~env.dockerenv /\ ~env.containerenv

\* the last provider call of m's current call was answered without the key the code
\* looks for
LastCallFailed(m) == calls[m] # <<>> /\ ~calls[m][Len(calls[m])].ok

(* C14: the provider calls of one get_access_token call are a prefix of    *)
(* exchange, initiation, completion or of initiation, completion: each     *)
(* operation at most once, in that order.  After a failed response the     *)
(* call makes one more provider call only when the failed response was the *)
(* exchange's, and that call is the initiation; a failed initiation or     *)
(* completion has ended the call with an error.                            *)
C14_NoRetry ==
    /\ [](\A m \in Mgrs :
            /\ Ops(m) \in {<<>>, <<OpRefresh>>, <<OpRefresh, OpInitiate>>,
                           <<OpRefresh, OpInitiate, OpDevice>>,
                           <<OpInitiate>>, <<OpInitiate, OpDevice>>}
            /\ (LastCallFailed(m) /\ calls[m][Len(calls[m])].op # OpRefresh) =>
                   pc[m] \in {"idle", "none"} /\ outcome[m].kind = "raised")
    /\ [][\A m \in Mgrs :
            (LastCallFailed(m) /\ Len(calls'[m]) > Len(calls[m])) =>
                /\ Ops(m) = <<OpRefresh>>
                /\ Len(calls'[m]) = 2
                /\ calls'[m][2].op = OpInitiate]_vars

C14_Witness ==
    /\ Ops("m1") = <<OpRefresh, OpInitiate, OpDevice>>
    /\ ~calls["m1"][1].ok
    /\ calls["m1"][2].ok
    /\ ~calls["m1"][3].ok
    /\ pc["m1"] = "idle"
    /\ outcome["m1"].kind = "raised"
    /\ outcome["m1"].exc = "Exception"

\* the file holds what the save of m's current call wrote: the save stands between
\* write_text and the file's chmod, or that chmod raised, or the save is complete
WrittenBySave(m) ==
    /\ saves[m] # <<>>
    /\ \/ pc[m] = "chmod"
       \/ pc[m] = "idle" /\ save_fault[m] = "chmod"
       \/ pc[m] = "idle" /\ outcome[m].kind = "returned"

\* no permission bit for group or others
OwnerOnly(mode) == mode % 64 = 0

(* C15: on a platform other than Windows, in every state of a save from    *)
(* its write on (between write_text and the chmod of the file, after a     *)
(* chmod that raised, after the save), a token file that holds a non-empty *)
(* refresh token has no permission bit for group or others.                *)
C15_OwnerOnlyAtRest ==
    \A m \in Mgrs :
        (env.os_name # "nt" /\ WrittenBySave(m) /\ fs.file_exists /\ fs.content # <<>>) =>
            OwnerOnly(fs.file_mode)

----------------------------------------------------------------------------
(* Saves from a clean start: nothing exists at the storage location until  *)
(* the program creates it; a process may die between any two steps         *)

CleanInit == Init /\ fs = NoDir

CrashSpec == CleanInit /\ [][Next]_vars

\* m's save runs to completion in this step
SaveCompletes(m) ==
    /\ pc[m] \in SaveSteps
    /\ pc'[m] = "idle"
    /\ outcome'[m].kind = "returned"

(* C16: on a platform other than Windows, when a process has died inside a *)
(* save after the directory's creation, after the directory's chmod or     *)
(* after the file's write, the next save that runs to completion leaves    *)
(* what an uninterrupted save from a clean start leaves: the file holding  *)
(* the saved token with mode 0o600 in a directory of mode 0o700.           *)
C16_SelfHealing ==
    [][\A m \in Mgrs :
        (interrupted \in {"chmod_dir", "write_text", "chmod"} /\ env.os_name # "nt"
            /\ SaveCompletes(m)) =>
            /\ fs'.file_exists
            /\ fs'.content = token[m]
            /\ fs'.file_mode = 384
            /\ fs'.dir_exists
            /\ fs'.dir_mode = 448]_vars

----------------------------------------------------------------------------
(* get_notebooks: the consumer of the access token                         *)

\* line 163: access_token or self.get_access_token().  With a non-empty argument the
\* argument is the bearer token; without one it is what get_access_token has just
\* returned to get_notebooks (the steps of that call are the steps above, and when the
\* call raises, get_notebooks ends with it)
BearerTokens(m, access_token) ==
    IF TruthyText(access_token) THEN {access_token.val}
    ELSE IF outcome[m].kind = "returned" /\ outcome[m].value \in AccessTokens
    THEN {outcome[m].value}
    ELSE {}

\* lines 164-169: the request with the bearer token; raise_for_status() raises on an
\* error status, else the decoded body is returned
NotebooksReturned(bearer) ==
    [kind |-> "returned", value |-> "notebooks", bearer |-> bearer]
NotebooksFailed(bearer) ==
    [kind |-> "raised", exc |-> "HTTPError", msg |-> "raise_for_status", bearer |-> bearer]

GetNotebooks(m) ==
    /\ pc[m] = "idle"
    /\ \E access_token \in {NoneV, Some("")} \cup {Some(a) : a \in AccessTokens} :
       \E bearer \in BearerTokens(m, access_token) :
       \E ok \in BOOLEAN :
            outcome' = [outcome EXCEPT ![m] =
                            IF ok THEN NotebooksReturned(bearer) ELSE NotebooksFailed(bearer)]
    /\ UNCHANGED <<env, argv, environ, fs, pc, self, result, flow, token, calls, saves,
                   load_fault, save_fault, last_saved, interrupted, latest, overlap>>

\* a POSIX platform with the default umask, the client id given as argument, the
\* token file at its place under the home directory
NotebooksInit ==
    /\ Init
    /\ env.os_name = "posix" /\ env.umask = 18
    /\ argv.client_id = Some("cid")
    /\ ResolveTokenPath(argv.token_path, env) = HomePath

NotebooksNext == Step("m1") \/ GetNotebooks("m1")

NotebooksSpec == NotebooksInit /\ [][NotebooksNext]_vars

\* a step passes a value to _save_refresh_token for manager m
SaveCalled(m) == saves'[m] # saves[m] /\ saves'[m] # <<>>

\* every value a step passes to save is the refresh_token of the response in hand
SavesRefreshTokenOnly ==
    \A m \in Mgrs :
        SaveCalled(m) =>
            /\ HasKey(result'[m], "refresh_token")
            /\ saves'[m] = Append(saves[m], result'[m].refresh_token)
            /\ token'[m] = result'[m].refresh_token

\* a step of get_notebooks' request leaves the storage location and the saves alone
RequestWritesNothing ==
    \A m \in Mgrs :
        (HasKey(outcome'[m], "bearer") /\ outcome'[m] # outcome[m]) =>
            fs' = fs /\ saves' = saves

(* C17 as stated: whenever the contents of the token file change, the new  *)
(* contents are a value the provider returned as a refresh token; and      *)
(* every value passed to save is the refresh token of a response.          *)
C17_ContentsFromProvider ==
    [][/\ SavesRefreshTokenOnly
       /\ RequestWritesNothing
       /\ fs'.content # fs.content =>
              \E m \in Mgrs :
                  /\ HasKey(result[m], "refresh_token")
                  /\ fs'.content = result[m].refresh_token]_vars

(* C17, amended: every value passed to save is the refresh token of the    *)
(* response in hand, never its access token; the request of get_notebooks  *)
(* writes nothing; and whenever the contents of the token file change, the *)
(* step is the write of a save and the new contents are the refresh token  *)
(* being saved or, when that write fails, what the failed write left       *)
(* (nothing).                                                              *)
C17_NoAccessTokenPersisted ==
    [][/\ SavesRefreshTokenOnly
       /\ RequestWritesNothing
       /\ fs'.content # fs.content =>
              \E m \in Mgrs :
                  /\ pc[m] = "write_text"
                  /\ HasKey(result[m], "refresh_token")
                  /\ \/ fs'.content = result[m].refresh_token
                     \/ /\ fs'.content = <<>>
                        /\ outcome'[m].kind = "raised"
                        /\ outcome'[m].exc = "OSError"]_vars

C17_Witness ==
    /\ pc["m1"] = "idle"
    /\ outcome["m1"].kind = "returned"
    /\ HasKey(outcome["m1"], "bearer")
    /\ HasKey(result["m1"], "refresh_token")
    /\ HasKey(result["m1"], "access_token")
    /\ outcome["m1"].bearer = result["m1"].access_token
    /\ saves["m1"] = <<result["m1"].refresh_token>>
    /\ fs.content = <<"a", "a">>
    /\ fs.content = result["m1"].refresh_token
    /\ self["m1"].refresh_token = Some(<<"a">>)

\* in this step m's exchange or device flow is answered with an access token and no
\* refresh token
GrantedWithoutRefresh(m) ==
    /\ pc[m] \in {"exchange", "poll"}
    /\ pc'[m] # pc[m]
    /\ Len(calls'[m]) = Len(calls[m]) + 1
    /\ HasKey(result'[m], "access_token")
    /\ ~HasKey(result'[m], "refresh_token")

(* C18: a response with an access token and no refresh token ends the call *)
(* at once: the call returns that access token, nothing was passed to      *)
(* save, and no step of the call has changed the storage location (the     *)
(* file's existence, contents and mode, the directory's existence and      *)
(* mode).                                                                  *)
C18_NoRefreshNoWrite ==
    [][\A m \in Mgrs :
        /\ GrantedWithoutRefresh(m) =>
               /\ pc'[m] = "idle"
               /\ outcome'[m].kind = "returned"
               /\ outcome'[m].value = result'[m].access_token
               /\ saves'[m] = <<>>
               /\ fs' = fs
        /\ (pc[m] \in {"idle", "exchange", "initiate", "poll"} /\ pc'[m] # pc[m]
               /\ pc'[m] # "none" /\ saves'[m] = <<>>) => fs' = fs]_vars

C18_Witness ==
    /\ pc["m1"] = "idle"
    /\ Ops("m1") = <<OpRefresh>>
    /\ result["m1"] = [access_token |-> "at2"]
    /\ outcome["m1"].kind = "returned"
    /\ outcome["m1"].value = "at2"
    /\ saves["m1"] = <<>>
    /\ fs.file_exists /\ fs.content = <<"a", " ">> /\ fs.file_mode = 420 /\ fs.dir_mode = 493

----------------------------------------------------------------------------
(* Two managers on one storage location, their steps interleaved: each is  *)
(* constructed once and makes one get_access_token call; the provider      *)
(* grants each manager a refresh token of its own                          *)

\* the refresh token the provider grants in a response to manager m
IssuedTo(m) == IF m = "m1" THEN <<"a", "a">> ELSE <<"a", " ">>

SharedResponses(m) ==
    {r \in Responses :
        ("access_token" \in DOMAIN r /\ "refresh_token" \in DOMAIN r) =>
            r.refresh_token = IssuedTo(m)}

\* a POSIX platform with the default umask, the token file under the home directory:
\* nothing there yet, or the file holding a token saved earlier
SharedInit ==
    /\ Init
    /\ env.os_name = "posix" /\ env.umask = 18
    /\ argv.client_id = Some("cid")
    /\ ResolveTokenPath(argv.token_path, env) = HomePath
    /\ fs \in {NoDir,
               [dir_exists |-> TRUE, dir_mode |-> DirMode, file_exists |-> TRUE,
                file_mode |-> FileMode, content |-> <<"a">>]}

\* the manager's one call
FirstGetAccessToken(m) == outcome[m].kind = "none" /\ GetAccessToken(m)

SharedSilentRefresh(m) == SilentRefresh(m) /\ result'[m] \in SharedResponses(m)

SharedAcquireByDeviceFlow(m) == AcquireByDeviceFlow(m) /\ result'[m] \in SharedResponses(m)

SharedStep(m) ==
    \/ Construct(m)
    \/ FirstGetAccessToken(m)
    \/ SharedSilentRefresh(m)
    \/ InitiateDeviceFlow(m)
    \/ SharedAcquireByDeviceFlow(m)
    \/ Mkdir(m)
    \/ ChmodDir(m)
    \/ WriteText(m)
    \/ ChmodFile(m)

SharedNext == \E m \in Mgrs : SharedStep(m)

SharedSpec == SharedInit /\ [][SharedNext]_vars

\* in this step m's call makes a provider call
ProviderStep(m) == Len(calls'[m]) = Len(calls[m]) + 1

\* m's call began with a rejected exchange and has ended with an error of the provider's
FailedAfterRejection(m) ==
    /\ pc[m] = "idle"
    /\ SilentRejected(m)
    /\ outcome[m].kind = "raised"
    /\ outcome[m].exc \in {"ValueError", "Exception"}

(* C19: a call whose exchange is rejected and whose device flow then fails *)
(* (no user code, or no access token) never touches the storage location:  *)
(* every provider call of a call that is not answered with an access token *)
(* leaves the file system as it is and passes nothing to save.  A manager  *)
(* constructed afterwards, the file still holding the rejected refresh     *)
(* token, loads that token, and the first provider call of a manager that  *)
(* loaded a token is the exchange with that token.                         *)
C19_FailureKeepsCredential ==
    [][\A m \in Mgrs :
        /\ (ProviderStep(m) /\ ~HasKey(result'[m], "access_token")) =>
               fs' = fs /\ saves'[m] = <<>>
        /\ (pc[m] # "idle" /\ FailedAfterRejection(m)') => fs' = fs
        /\ \A o \in Mgrs \ {m} :
               (FailedAfterRejection(m) /\ ConstructStep(o) /\ pc'[o] = "idle"
                   /\ load_fault'[o] = "none" /\ fs.file_exists
                   /\ Strip(fs.content) = calls[m][1].arg.val) =>
                   self'[o].refresh_token = calls[m][1].arg
        /\ (ProviderStep(m) /\ calls[m] = <<>> /\ self[m].refresh_token.some
               /\ self[m].refresh_token.val # <<>>) =>
               /\ calls'[m][1].op = OpRefresh
               /\ calls'[m][1].arg = self[m].refresh_token]_vars

C19_Witness ==
    /\ FailedAfterRejection("m1")
    /\ Ops("m1") = <<OpRefresh, OpInitiate, OpDevice>>
    /\ ~overlap["m1"] /\ ~overlap["m2"]
    /\ pc["m2"] = "initiate"
    /\ Ops("m2") = <<OpRefresh>>
    /\ calls["m2"][1].arg = calls["m1"][1].arg
    /\ calls["m2"][1].arg = Some(<<"a">>)
    /\ fs.file_exists /\ fs.content = <<"a">> /\ fs.file_mode = 384

(* C20: when the calls of two managers on one storage location do not      *)
(* overlap, the save of each call, once complete, leaves the file holding  *)
(* the refresh token granted to that call.  (When they overlap, the        *)
(* witness is reached: both calls have returned and the file holds the     *)
(* refresh token granted first, not the one granted last.)                 *)
C20_NonOverlappingSaves ==
    [][\A m \in Mgrs :
        (SaveCompletes(m) /\ ~overlap[m]) =>
            /\ HasKey(result[m], "refresh_token")
            /\ fs'.file_exists
            /\ fs'.content = result[m].refresh_token]_vars

C20_Witness ==
    /\ pc["m1"] = "idle" /\ pc["m2"] = "idle"
    /\ outcome["m1"].kind = "returned" /\ outcome["m2"].kind = "returned"
    /\ saves["m1"] # <<>> /\ saves["m2"] # <<>>
    /\ overlap["m1"] /\ overlap["m2"]
    /\ latest = "m2"
    /\ fs.content = saves["m1"][1]
    /\ fs.content # saves["m2"][1]
====
